---- MODULE Spec2Model ----
(***************************************************************************)
(* A model of src-tauri/src/main.rs: the focus monitor (the two statics    *)
(* FOCUS_MONITOR_ACTIVE / FOCUS_MONITOR_TARGET, the start and stop         *)
(* commands and the polling thread) and the PTY session manager (the       *)
(* registry, the create / write / resize / close commands and the reader   *)
(* threads).                                                               *)
(*                                                                         *)
(* Commands are run by caller threads; a command is a sequence of steps,   *)
(* one step per access to shared state, so that calls interleave with each *)
(* other and with the background threads.  An Option<T> of the source is a *)
(* sequence of length at most one: None is << >>, Some(x) is << x >>.      *)
(***************************************************************************)
EXTENDS Integers, Sequences, FiniteSets, TLC

\* ------------------------------------------------------------------ bounds

\* The focus monitor is checked in two environments, chosen by Init (mode):
\*   "conc": two caller threads whose start/stop calls overlap freely, with
\*           two frontmost names;
\*   "seq" : one caller thread issuing its calls one after the other, with
\*           the full set of frontmost names and longer poll sequences.
\* Total number of start/stop invocations in a behaviour, per mode.
MaxFocusCalls == 3
MaxSeqCalls == 2
\* Total number of polls that return a name (polls that return None are
\* free), per mode.
MaxPolls == 2
MaxSeqPolls == 4

FocusCallers == {1, 2}

\* Names the platform may report as frontmost, and targets a caller may pass.
AppNames == {"A", "B", "Foo", "Shelll", "shelll"}
ConcAppNames == {"A", "Foo"}
TargetNames == {"Foo", "Bar"}

None == << >>
Some(x) == << x >>

\* The session manager: caller threads, the total number of command
\* invocations, the number of create_pty_session invocations, the number of
\* bytes a PTY's output side delivers, and the reader's buffer length (the
\* source's 4096, scaled down).
PtyCallers == {1, 2}
MaxPtyCalls == 3
MaxSessions == 2
MaxOut == 2
BufLen == 2

\* PtySize { rows: 30, cols: 100, .. }
InitRows == 30
InitCols == 100

\* Session ids: one more than create can generate, so that one is never
\* issued: UnknownId, the id of no session.
SessionIds == 1..(MaxSessions + 1)
UnknownId == MaxSessions + 1
\* Geometries a caller may request.
Sizes == {<<24, 80>>, <<50, 132>>}
\* The bytes caller t writes, and the k-th byte PTY p's output side delivers:
\* each identifies where it comes from.
Data(t) == <<100 * t + 1, 100 * t + 2>>
ByteOf(q, k) == 10 * q + k

VARIABLES
    mode,         \* the environment of the focus monitor: "conc" or "seq"
    \* --- focus monitor: program state
    active,       \* FOCUS_MONITOR_ACTIVE
    target,       \* FOCUS_MONITOR_TARGET (Option<String>)
    fpc,          \* per caller: position inside the running command, or "idle"
    farg,         \* per caller: target_app of the running start call
    loops,        \* the polling threads spawned so far, in spawn order
    events,       \* the app-focus-changed events emitted so far, in order
    \* --- focus monitor: history variables for the properties (never read by an action's guard
    \*     except the bounds)
    fcalls,       \* number of invocations so far
    npolls,       \* number of named polls so far
    stopQuiet,    \* a stop has returned; no stop step and no start call since
    ffollows,     \* per caller: its start call is the first one after a returned stop
    usedTargets,  \* every target_app passed to start so far
    frun,         \* per caller: the flag was true when its start call was
                  \*   invoked, and no stop has cleared the flag since
    stopAlone,    \* when a stop last cleared the flag no start call was in
                  \*   progress, and none has been invoked since
    \* --- session manager: program state
    sessions,     \* AppState.sessions: session id -> index (in ptys) of its PtySession
    ptys,         \* the PTYs of the inserted sessions, with their reader threads
    regHeld,      \* the caller holding the sessions mutex, or 0
    regPoisoned,  \* the sessions mutex is poisoned
    ppc,          \* per caller: position inside the running command, "idle" or "dead"
    pop,          \* per caller: the running (or last) command and its arguments
    ppty,         \* per caller: the PTY its command holds a handle of
    pres,         \* per caller: the command that returned last and its result
    ptyEvents,    \* the pty-output events emitted so far, in order
    \* --- session manager: history variables for the properties
    pcalls,       \* number of invocations so far
    issued,       \* the ids Uuid::new_v4 has generated
    returned,     \* the ids create_pty_session has returned, in order
    closedIds,    \* the ids for which a close_pty_session has returned
    closedOk,     \* the ids for which a close_pty_session has returned Ok
    peff,         \* per caller: what its running (or last) command changed
    pabsent,      \* per caller: its command's id was no key at the invocation
    pafter,       \* per caller: its command began after a close of its id
                  \*   returned Ok ("ok"), returned an error only ("err"), or
                  \*   after none ("no")
    lastResize    \* per id: the (rows, cols) of the last resize_pty call on
                  \*   that id whose master.resize succeeded (Option)

focusVars == <<mode, active, target, fpc, farg, loops, events, fcalls, npolls,
               stopQuiet, ffollows, usedTargets, frun, stopAlone>>

ptyVars == <<sessions, ptys, regHeld, regPoisoned, ppc, pop, ppty, pres,
             ptyEvents, pcalls, issued, returned, closedIds, closedOk, peff,
             pabsent, pafter, lastResize>>

vars == <<focusVars, ptyVars>>

Callers == IF mode = "seq" THEN {1} ELSE FocusCallers
CallBound == IF mode = "seq" THEN MaxSeqCalls ELSE MaxFocusCalls
PollBound == IF mode = "seq" THEN MaxSeqPolls ELSE MaxPolls
Frontmost == IF mode = "seq" THEN AppNames ELSE ConcAppNames
\* Callers are interchangeable: an invocation takes the lowest idle one.
NextCaller(c) == \A d \in Callers : d < c => fpc[d] # "idle"

\* ------------------------------------------------------- the polling thread

\* let mut last_app: Option<String> = None;
CarriedLastApp == IF loops = << >> THEN None ELSE loops[Len(loops)].last_app
NewLoopLastApp == None

\* A thread as thread::spawn creates it.  polled, unarmed, stale, fresh,
\* byFollower and iters are bookkeeping: the names this thread polled; whether
\* it ever read an unset target; whether a stop returned since it read the
\* target it holds; whether it was spawned after the last store of false by a
\* stop; whether the start call that spawned it was the first after a
\* returned stop; for each iteration that read the shared target, the name
\* it had polled and the target it read; and the number of events it emitted
\* since a stop last cleared the flag (or since it was spawned).
NewLoop(follower) ==
    [pc |-> "check", last_app |-> NewLoopLastApp, current_app |-> "",
     target_name |-> "", polled |-> << >>, unarmed |-> FALSE, stale |-> FALSE,
     fresh |-> TRUE, byFollower |-> follower, iters |-> << >>, late |-> 0]

LoopIds == 1..Len(loops)
Running(l) == loops[l].pc # "exited"
RunningLoops == {l \in LoopIds : Running(l)}

\* last_app.as_ref() != Some(&current_app)
ChangedAlways(last, cur) == TRUE
Changed(last, cur) == last # Some(cur)

\* current_app == "Shelll" || current_app == "shelll"
IsSelfCapitalOnly(cur) == cur = "Shelll"
IsSelf(cur) == cur = "Shelll" \/ cur = "shelll"

\* current_app == target_name
IsTarget(cur, tgt) == cur = tgt

\* FocusChangedPayload; against, loop and stale are bookkeeping: the target the
\* flags were computed against, the emitting thread, and whether a stop
\* returned between the read of that target and the emit.
Payload(l) ==
    [focused_app |-> loops[l].current_app,
     is_target_focused |-> IsTarget(loops[l].current_app, loops[l].target_name),
     is_self_focused |-> IsSelf(loops[l].current_app),
     against |-> loops[l].target_name, loop |-> l, stale |-> loops[l].stale]

SetLoop(l, r) == [loops EXCEPT ![l] = r]

\* while FOCUS_MONITOR_ACTIVE.load(SeqCst)  (reached at spawn and after each sleep)
LoopCheckForever(l) ==
    /\ loops[l].pc = "check"
    /\ loops' = SetLoop(l, [loops[l] EXCEPT !.pc = "poll"])
    /\ UNCHANGED <<mode, frun, stopAlone, active, target, fpc, farg, events, fcalls,
                   npolls, stopQuiet, ffollows, usedTargets>>

LoopCheck(l) ==
    /\ loops[l].pc = "check"
    /\ loops' = SetLoop(l, [loops[l] EXCEPT !.pc = IF active THEN "poll" ELSE "exited"])
    /\ UNCHANGED <<mode, frun, stopAlone, active, target, fpc, farg, events, fcalls,
                   npolls, stopQuiet, ffollows, usedTargets>>

\* get_frontmost_app_name() returned None: nothing happens, the thread sleeps
LoopPollNone(l) ==
    /\ loops[l].pc = "poll"
    /\ loops' = SetLoop(l, [loops[l] EXCEPT !.pc = "check"])
    /\ UNCHANGED <<mode, frun, stopAlone, active, target, fpc, farg, events, fcalls,
                   npolls, stopQuiet, ffollows, usedTargets>>

\* get_frontmost_app_name() returned Some(current_app)
LoopPollSome(l) ==
    /\ loops[l].pc = "poll"
    /\ npolls < PollBound
    /\ \E cur \in Frontmost :
          loops' = SetLoop(l,
              IF Changed(loops[l].last_app, cur)
              THEN [loops[l] EXCEPT !.pc = "read", !.last_app = Some(cur),
                                    !.current_app = cur,
                                    !.polled = Append(@, cur)]
              ELSE [loops[l] EXCEPT !.pc = "check",
                                    !.polled = Append(@, cur)])
    /\ npolls' = npolls + 1
    /\ UNCHANGED <<mode, frun, stopAlone, active, target, fpc, farg, events, fcalls,
                   stopQuiet, ffollows, usedTargets>>

\* let target = FOCUS_MONITOR_TARGET.lock().ok().and_then(|t| t.clone());
\* if let Some(target_name) = target { ... } (else: sleep)
Iter(l) == [app |-> loops[l].current_app, tgt |-> target]

LoopReadTargetUnwrapped(l) ==
    /\ loops[l].pc = "read"
    /\ loops' = SetLoop(l,
          [loops[l] EXCEPT !.pc = "emit",
                           !.target_name = IF target = None THEN "" ELSE target[1],
                           !.unarmed = @ \/ target = None,
                           !.stale = FALSE, !.iters = Append(@, Iter(l))])
    /\ UNCHANGED <<mode, frun, stopAlone, active, target, fpc, farg, events, fcalls,
                   npolls, stopQuiet, ffollows, usedTargets>>

LoopReadTarget(l) ==
    /\ loops[l].pc = "read"
    /\ loops' = SetLoop(l,
          IF target = None
          THEN [loops[l] EXCEPT !.pc = "check", !.unarmed = TRUE,
                                !.iters = Append(@, Iter(l))]
          ELSE [loops[l] EXCEPT !.pc = "emit", !.target_name = target[1],
                                !.stale = FALSE, !.iters = Append(@, Iter(l))])
    /\ UNCHANGED <<mode, frun, stopAlone, active, target, fpc, farg, events, fcalls,
                   npolls, stopQuiet, ffollows, usedTargets>>

\* app_handle.emit_all("app-focus-changed", payload); then sleep
LoopEmit(l) ==
    /\ loops[l].pc = "emit"
    /\ events' = Append(events, Payload(l))
    /\ loops' = SetLoop(l, [loops[l] EXCEPT !.pc = "check", !.late = @ + 1])
    /\ UNCHANGED <<mode, frun, stopAlone, active, target, fpc, farg, fcalls, npolls,
                   stopQuiet, ffollows, usedTargets>>

\* ------------------------------------------------------ start_focus_monitor

\* The command is invoked with target_app = t.
StartCall(c) ==
    /\ fpc[c] = "idle"
    /\ NextCaller(c)
    /\ fcalls < CallBound
    /\ \E t \in TargetNames :
          /\ farg' = [farg EXCEPT ![c] = t]
          /\ usedTargets' = usedTargets \cup {t}
    /\ fpc' = [fpc EXCEPT ![c] = "s_set"]
    /\ fcalls' = fcalls + 1
    /\ ffollows' = [ffollows EXCEPT ![c] = stopQuiet]
    /\ stopQuiet' = FALSE
    /\ frun' = [frun EXCEPT ![c] = active]
    /\ stopAlone' = FALSE
    /\ UNCHANGED <<mode, active, target, loops, events, npolls>>

\* if let Ok(mut target) = FOCUS_MONITOR_TARGET.lock() { *target = Some(target_app.clone()); }
StartSetTarget(c) ==
    /\ fpc[c] = "s_set"
    /\ target' = Some(farg[c])
    /\ fpc' = [fpc EXCEPT ![c] = "s_load"]
    /\ UNCHANGED <<mode, frun, stopAlone, active, farg, loops, events, fcalls, npolls,
                   stopQuiet, ffollows, usedTargets>>

\* if FOCUS_MONITOR_ACTIVE.load(SeqCst) { return; }
StartLoadActiveIgnored(c) ==
    /\ fpc[c] = "s_load"
    /\ fpc' = [fpc EXCEPT ![c] = "s_store"]
    /\ UNCHANGED <<mode, frun, stopAlone, active, target, farg, loops, events, fcalls, npolls,
                   stopQuiet, ffollows, usedTargets>>

StartLoadActive(c) ==
    /\ fpc[c] = "s_load"
    /\ fpc' = [fpc EXCEPT ![c] = IF active THEN "idle" ELSE "s_store"]
    /\ UNCHANGED <<mode, frun, stopAlone, active, target, farg, loops, events, fcalls, npolls,
                   stopQuiet, ffollows, usedTargets>>

\* FOCUS_MONITOR_ACTIVE.store(true, SeqCst);
StartStoreActive(c) ==
    /\ fpc[c] = "s_store"
    /\ active' = TRUE
    /\ fpc' = [fpc EXCEPT ![c] = "s_spawn"]
    /\ UNCHANGED <<mode, frun, stopAlone, target, farg, loops, events, fcalls, npolls,
                   stopQuiet, ffollows, usedTargets>>

\* thread::spawn(move || { ... }); the command returns
StartSpawn(c) ==
    /\ fpc[c] = "s_spawn"
    /\ loops' = Append(loops, NewLoop(ffollows[c]))
    /\ fpc' = [fpc EXCEPT ![c] = "idle"]
    /\ UNCHANGED <<mode, frun, stopAlone, active, target, farg, events, fcalls, npolls,
                   stopQuiet, ffollows, usedTargets>>

\* ------------------------------------------------------- stop_focus_monitor

\* Caller c is inside a start_focus_monitor call.
InStart(c) == fpc[c] \in {"s_set", "s_load", "s_store", "s_spawn"}

\* Bookkeeping of a stop: once it has cleared the flag, no thread spawned so
\* far is "after the last stop"; and after any of its steps no thread is
\* "spawned by a start that no stop has followed".
Unfresh ==
    [l \in LoopIds |-> [loops[l] EXCEPT !.fresh = FALSE, !.byFollower = FALSE,
                                        !.late = 0]]
Unfollowed == [l \in LoopIds |-> [loops[l] EXCEPT !.byFollower = FALSE]]

StopCall(c) ==
    /\ fpc[c] = "idle"
    /\ NextCaller(c)
    /\ fcalls < CallBound
    /\ fpc' = [fpc EXCEPT ![c] = "p_store"]
    /\ fcalls' = fcalls + 1
    /\ ffollows' = [ffollows EXCEPT ![c] = FALSE]
    /\ frun' = [frun EXCEPT ![c] = FALSE]
    /\ UNCHANGED <<mode, stopAlone, active, target, farg, loops, events, npolls,
                   stopQuiet, usedTargets>>

\* FOCUS_MONITOR_ACTIVE.store(false, SeqCst);
StopStoreActive(c) ==
    /\ fpc[c] = "p_store"
    /\ active' = FALSE
    /\ fpc' = [fpc EXCEPT ![c] = "p_clear"]
    /\ loops' = Unfresh
    /\ ffollows' = [d \in FocusCallers |-> FALSE]
    /\ stopQuiet' = FALSE
    /\ frun' = [d \in FocusCallers |-> FALSE]
    /\ stopAlone' = (\A d \in FocusCallers : ~InStart(d))
    /\ UNCHANGED <<mode, target, farg, events, fcalls, npolls, usedTargets>>

\* if let Ok(mut target) = FOCUS_MONITOR_TARGET.lock() { *target = None; }
\* the command returns
StopClearTarget(c) ==
    /\ fpc[c] = "p_clear"
    /\ target' = None
    /\ fpc' = [fpc EXCEPT ![c] = "idle"]
    /\ loops' = [l \in LoopIds |->
                    [Unfollowed[l] EXCEPT !.stale = (loops[l].pc = "emit") \/ @]]
    /\ ffollows' = [d \in FocusCallers |-> FALSE]
    /\ stopQuiet' = TRUE
    /\ UNCHANGED <<mode, frun, stopAlone, active, farg, events, fcalls, npolls, usedTargets>>


\* ---------------------------------------------------------- session manager

PtyIds == 1..Len(ptys)

\* What openpty returns at 30 x 100, with the reader thread not yet spawned.
\* input: the bytes written to the PTY's input side; pump, buf: the reader
\* thread's position and its buf[..n]; sid: the id the reader thread carries;
\* wheld, wpois, mheld, mpois: the holder (or 0) and the poison flag of the
\* session's writer and master mutexes.  key, reads and eof are bookkeeping:
\* the id the session is inserted under, the nonzero reads so far, and
\* whether a read returned Ok(0) or Err.
NewPtyUnsized(id) ==
    [geom |-> <<0, 0>>, input |-> << >>, pump |-> "none",
     buf |-> << >>, sid |-> 0, wheld |-> 0, wpois |-> FALSE, mheld |-> 0,
     mpois |-> FALSE, key |-> id, reads |-> << >>, eof |-> FALSE]
NewPty(id) ==
    [geom |-> <<InitRows, InitCols>>, input |-> << >>, pump |-> "none",
     buf |-> << >>, sid |-> 0, wheld |-> 0, wpois |-> FALSE, mheld |-> 0,
     mpois |-> FALSE, key |-> id, reads |-> << >>, eof |-> FALSE]

SetPty(q, r) == [ptys EXCEPT ![q] = r]

NoEffect == [ins |-> FALSE, pump |-> FALSE, rem |-> FALSE, geom |-> FALSE,
             bytes |-> << >>, pty |-> 0, rfail |-> FALSE, wfail |-> FALSE]
NoOp == [op |-> "none", id |-> 0, rows |-> 0, cols |-> 0]
Result(t, r) == [op |-> pop[t].op, id |-> pop[t].id, res |-> r]

\* Uuid::new_v4().to_string(): an id never generated before.
NewV4 == CHOOSE i \in SessionIds \ issued : \A j \in SessionIds \ issued : i <= j

\* sessions.get(&session_id)
LookupAny(id) ==
    IF DOMAIN sessions = {} THEN None
    ELSE Some(sessions[CHOOSE i \in DOMAIN sessions : TRUE])
Lookup(id) == IF id \in DOMAIN sessions THEN Some(sessions[id]) ELSE None

\* sessions.insert(session_id, session)
Insert(m, id, q) == [i \in DOMAIN m \cup {id} |-> IF i = id THEN q ELSE m[i]]
\* sessions.remove(&session_id)
RemoveNothing(m, id) == m
Remove(m, id) == [i \in DOMAIN m \ {id} |-> m[i]]

\* The ids a caller can pass: those create_pty_session has returned, and the
\* id of no session.
KnownIds == {returned[i] : i \in 1..Len(returned)} \cup {UnknownId}

\* A command is invoked by an idle caller.
Invoke(t, op) ==
    /\ ppc[t] = "idle"
    /\ pcalls < MaxPtyCalls
    /\ pcalls' = pcalls + 1
    /\ pop' = [pop EXCEPT ![t] = op]
    /\ peff' = [peff EXCEPT ![t] = NoEffect]
    /\ pabsent' = [pabsent EXCEPT ![t] = op.id \notin DOMAIN sessions]
    /\ pafter' = [pafter EXCEPT ![t] = IF op.id \in closedOk THEN "ok"
                                       ELSE IF op.id \in closedIds THEN "err"
                                       ELSE "no"]

\* The command returns r to its caller.
Return(t, r) ==
    /\ ppc' = [ppc EXCEPT ![t] = "idle"]
    /\ pres' = [pres EXCEPT ![t] = Result(t, r)]

\* --- create_pty_session

\* let session_id = Uuid::new_v4().to_string();
CreateCall(t) ==
    /\ Cardinality(issued) < MaxSessions
    /\ Invoke(t, [op |-> "create", id |-> NewV4, rows |-> 0, cols |-> 0])
    /\ issued' = issued \cup {NewV4}
    /\ ppc' = [ppc EXCEPT ![t] = "c_make"]
    /\ UNCHANGED <<sessions, ptys, regHeld, regPoisoned, ppty, pres, ptyEvents,
                   returned, closedIds, closedOk, lastResize>>

\* openpty, try_clone_reader, take_writer, spawn_command: each may fail, and
\* the first failure is returned with `?`; none touches shared state.
CreateFailures ==
    {"Failed to create PTY", "Failed to clone reader", "Failed to take writer",
     "Failed to spawn shell"}

CreateMake(t) ==
    /\ ppc[t] = "c_make"
    /\ \/ /\ ppc' = [ppc EXCEPT ![t] = "c_lock"]
          /\ UNCHANGED pres
       \/ \E e \in CreateFailures : Return(t, e)
    /\ UNCHANGED <<sessions, ptys, regHeld, regPoisoned, pop, ppty, ptyEvents,
                   pcalls, issued, returned, closedIds, closedOk, peff, pabsent, pafter,
                   lastResize>>

\* { let mut sessions = state.sessions.lock().map_err(|_| "Lock poisoned")?;
\*   sessions.insert(session_id.clone(), session); }
CreateInsertAnyway(t) ==
    /\ ppc[t] = "c_lock"
    /\ regHeld = 0
    /\ ptys' = Append(ptys, NewPty(pop[t].id))
    /\ sessions' = Insert(sessions, pop[t].id, Len(ptys) + 1)
    /\ ppty' = [ppty EXCEPT ![t] = Len(ptys) + 1]
    /\ peff' = [peff EXCEPT ![t].ins = TRUE]
    /\ IF regPoisoned
       THEN Return(t, "Lock poisoned")
       ELSE ppc' = [ppc EXCEPT ![t] = "c_pump"] /\ UNCHANGED pres
    /\ UNCHANGED <<regHeld, regPoisoned, pop, ptyEvents, pcalls, issued,
                   returned, closedIds, closedOk, pabsent, pafter, lastResize>>

CreateInsert(t) ==
    /\ ppc[t] = "c_lock"
    /\ regHeld = 0
    /\ IF regPoisoned
       THEN /\ Return(t, "Lock poisoned")
            /\ UNCHANGED <<sessions, ptys, ppty, peff>>
       ELSE /\ ptys' = Append(ptys, NewPty(pop[t].id))
            /\ sessions' = Insert(sessions, pop[t].id, Len(ptys) + 1)
            /\ ppty' = [ppty EXCEPT ![t] = Len(ptys) + 1]
            /\ ppc' = [ppc EXCEPT ![t] = "c_pump"]
            /\ peff' = [peff EXCEPT ![t].ins = TRUE]
            /\ UNCHANGED pres
    /\ UNCHANGED <<regHeld, regPoisoned, pop, ptyEvents, pcalls, issued,
                   returned, closedIds, closedOk, pabsent, pafter, lastResize>>

\* let sid = session_id.clone(); thread::spawn(move || { ... }); Ok(session_id)
CreateSpawnPump(t) ==
    /\ ppc[t] = "c_pump"
    /\ ptys' = SetPty(ppty[t], [ptys[ppty[t]] EXCEPT !.pump = "read", !.sid = pop[t].id])
    /\ peff' = [peff EXCEPT ![t].pump = TRUE]
    /\ returned' = Append(returned, pop[t].id)
    /\ Return(t, "Ok")
    /\ UNCHANGED <<sessions, regHeld, regPoisoned, pop, ppty, ptyEvents, pcalls,
                   issued, closedIds, closedOk, pabsent, pafter, lastResize>>

\* --- the reader thread of PTY q

RECURSIVE TotalLen(_)
TotalLen(ss) == IF ss = << >> THEN 0 ELSE Len(ss[1]) + TotalLen(Tail(ss))
\* The n bytes the output side of PTY q delivers after the first k.
Chunk(q, k, n) == [i \in 1..n |-> ByteOf(q, k + i)]

\* reader.read(&mut buf) returned Ok(n), n > 0
PumpRead(q) ==
    /\ ptys[q].pump = "read"
    /\ \E n \in 1..BufLen :
          /\ TotalLen(ptys[q].reads) + n <= MaxOut
          /\ LET c == Chunk(q, TotalLen(ptys[q].reads), n)
             IN  ptys' = SetPty(q, [ptys[q] EXCEPT !.pump = "emit", !.buf = c,
                                                   !.reads = Append(@, c)])
    /\ UNCHANGED <<sessions, regHeld, regPoisoned, ppc, pop, ppty, pres,
                   ptyEvents, pcalls, issued, returned, closedIds, closedOk, peff,
                   pabsent, pafter, lastResize>>

\* Ok(_) => break, Err(_) => break
AfterEnd == "done"

\* reader.read(&mut buf) returned Ok(0) or Err
PumpEnd(q) ==
    /\ ptys[q].pump = "read"
    /\ ptys' = SetPty(q, [ptys[q] EXCEPT !.pump = AfterEnd, !.eof = TRUE])
    /\ UNCHANGED <<sessions, regHeld, regPoisoned, ppc, pop, ppty, pres,
                   ptyEvents, pcalls, issued, returned, closedIds, closedOk, peff,
                   pabsent, pafter, lastResize>>

\* PtyOutputPayload { session_id: sid.clone(), data: buf[..n].to_vec() };
\* pump and closed are bookkeeping: the emitting thread, and whether a
\* close_pty_session of the thread's id had returned Ok before the emit.
OutputPayloadWholeBuffer(q) ==
    [session_id |-> ptys[q].sid,
     data |-> [i \in 1..BufLen |-> IF i <= Len(ptys[q].buf) THEN ptys[q].buf[i] ELSE 0],
     pump |-> q, closed |-> ptys[q].sid \in closedOk]
OutputPayload(q) ==
    [session_id |-> ptys[q].sid, data |-> ptys[q].buf, pump |-> q,
     closed |-> ptys[q].sid \in closedOk]

\* app_handle.emit_all("pty-output", payload)
PumpEmit(q) ==
    /\ ptys[q].pump = "emit"
    /\ ptyEvents' = Append(ptyEvents, OutputPayload(q))
    /\ ptys' = SetPty(q, [ptys[q] EXCEPT !.pump = "read", !.buf = << >>])
    /\ UNCHANGED <<sessions, regHeld, regPoisoned, ppc, pop, ppty, pres,
                   pcalls, issued, returned, closedIds, closedOk, peff, pabsent, pafter,
                   lastResize>>

\* --- write_to_pty

WriteCall(t) ==
    /\ \E id \in KnownIds :
          Invoke(t, [op |-> "write", id |-> id, rows |-> 0, cols |-> 0])
    /\ ppc' = [ppc EXCEPT ![t] = "w_lock"]
    /\ UNCHANGED <<sessions, ptys, regHeld, regPoisoned, ppty, pres, ptyEvents,
                   issued, returned, closedIds, closedOk, lastResize>>

\* state.sessions.lock().map_err(|_| "Lock poisoned")?  (shared by write and
\* resize): the caller waits for the mutex; a poisoned mutex is an Err, which
\* `?` returns after dropping the guard.
LockRegistryNotHeld(t, at, next) ==
    /\ ppc[t] = at
    /\ IF regPoisoned
       THEN Return(t, "Lock poisoned")
       ELSE /\ ppc' = [ppc EXCEPT ![t] = next]
            /\ UNCHANGED pres
    /\ UNCHANGED <<sessions, ptys, regHeld, regPoisoned, pop, ppty, ptyEvents,
                   pcalls, issued, returned, closedIds, closedOk, peff, pabsent,
                   pafter, lastResize>>

LockRegistry(t, at, next) ==
    /\ ppc[t] = at
    /\ regHeld = 0
    /\ IF regPoisoned
       THEN Return(t, "Lock poisoned") /\ UNCHANGED regHeld
       ELSE /\ regHeld' = t
            /\ ppc' = [ppc EXCEPT ![t] = next]
            /\ UNCHANGED pres
    /\ UNCHANGED <<sessions, ptys, regPoisoned, pop, ppty, ptyEvents, pcalls,
                   issued, returned, closedIds, closedOk, peff, pabsent, pafter,
                   lastResize>>

WriteLock(t) == LockRegistry(t, "w_lock", "w_get")

\* if let Some(session) = sessions.get(&session_id) {
\*     if let Ok(mut writer) = session.writer.lock() { ... } }  Ok(())
WriteGet(t) ==
    /\ ppc[t] = "w_get"
    /\ LET s == Lookup(pop[t].id)
       IN  IF s = None
           THEN /\ Return(t, "Ok")
                /\ regHeld' = 0
                /\ UNCHANGED <<ptys, ppty>>
           ELSE /\ ptys[s[1]].wheld = 0
                /\ IF ptys[s[1]].wpois
                   THEN /\ Return(t, "Ok")
                        /\ regHeld' = 0
                        /\ UNCHANGED <<ptys, ppty>>
                   ELSE /\ ptys' = SetPty(s[1], [ptys[s[1]] EXCEPT !.wheld = t])
                        /\ ppty' = [ppty EXCEPT ![t] = s[1]]
                        /\ ppc' = [ppc EXCEPT ![t] = "w_write"]
                        /\ UNCHANGED <<regHeld, pres>>
    /\ UNCHANGED <<sessions, regPoisoned, pop, ptyEvents, pcalls, issued,
                   returned, closedIds, closedOk, peff, pabsent, pafter,
                   lastResize>>

\* The caller's thread unwinds from a panic inside a library call made under
\* the sessions mutex: its guards are dropped and poison the mutexes.
PanicKeepingGuard(t) ==
    /\ ppc' = [ppc EXCEPT ![t] = "dead"]
    /\ pres' = [pres EXCEPT ![t] = Result(t, "panic")]
    /\ regHeld' = regHeld
    /\ regPoisoned' = TRUE
Panic(t) ==
    /\ ppc' = [ppc EXCEPT ![t] = "dead"]
    /\ pres' = [pres EXCEPT ![t] = Result(t, "panic")]
    /\ regHeld' = 0
    /\ regPoisoned' = TRUE

\* let _ = writer.write_all(data.as_bytes()); let _ = writer.flush();  Ok(())
\* write_all delivers the bytes one write after the other (one byte per step
\* here): each step delivers the next byte, or write_all fails (the error is
\* dropped), or the call panics.  After the last byte the guards are dropped
\* and the command returns.  peff.bytes are the bytes this call delivered so
\* far, peff.wfail that its write_all failed.
WriteBytes(t) ==
    /\ ppc[t] = "w_write"
    /\ LET q == ppty[t]
           done == Len(peff[t].bytes)
           last == done + 1 = Len(Data(t))
       IN  \/ /\ ptys' = SetPty(q, [ptys[q] EXCEPT
                                       !.input = Append(@, Data(t)[done + 1]),
                                       !.wheld = IF last THEN 0 ELSE t])
              /\ peff' = [peff EXCEPT ![t].bytes = Append(@, Data(t)[done + 1]),
                                      ![t].pty = q]
              /\ IF last
                 THEN Return(t, "Ok") /\ regHeld' = 0
                 ELSE UNCHANGED <<ppc, pres, regHeld>>
              /\ UNCHANGED regPoisoned
           \/ /\ ptys' = SetPty(q, [ptys[q] EXCEPT !.wheld = 0])
              /\ peff' = [peff EXCEPT ![t].wfail = TRUE, ![t].pty = q]
              /\ Return(t, "Ok")
              /\ regHeld' = 0
              /\ UNCHANGED regPoisoned
           \/ /\ ptys' = SetPty(q, [ptys[q] EXCEPT !.wheld = 0, !.wpois = TRUE])
              /\ Panic(t)
              /\ UNCHANGED peff
    /\ UNCHANGED <<sessions, pop, ppty, ptyEvents, pcalls, issued, returned,
                   closedIds, closedOk, pabsent, pafter, lastResize>>

\* --- resize_pty

ResizeCall(t) ==
    /\ \E id \in KnownIds : \E sz \in Sizes :
          Invoke(t, [op |-> "resize", id |-> id, rows |-> sz[1], cols |-> sz[2]])
    /\ ppc' = [ppc EXCEPT ![t] = "r_lock"]
    /\ UNCHANGED <<sessions, ptys, regHeld, regPoisoned, ppty, pres, ptyEvents,
                   issued, returned, closedIds, closedOk, lastResize>>

ResizeLock(t) == LockRegistry(t, "r_lock", "r_get")

\* if let Some(session) = sessions.get(&session_id) {
\*     if let Ok(master) = session.master.lock() { ... } }  Ok(())
ResizeGet(t) ==
    /\ ppc[t] = "r_get"
    /\ LET s == Lookup(pop[t].id)
       IN  IF s = None
           THEN /\ Return(t, "Ok")
                /\ regHeld' = 0
                /\ UNCHANGED <<ptys, ppty>>
           ELSE /\ ptys[s[1]].mheld = 0
                /\ IF ptys[s[1]].mpois
                   THEN /\ Return(t, "Ok")
                        /\ regHeld' = 0
                        /\ UNCHANGED <<ptys, ppty>>
                   ELSE /\ ptys' = SetPty(s[1], [ptys[s[1]] EXCEPT !.mheld = t])
                        /\ ppty' = [ppty EXCEPT ![t] = s[1]]
                        /\ ppc' = [ppc EXCEPT ![t] = "r_resize"]
                        /\ UNCHANGED <<regHeld, pres>>
    /\ UNCHANGED <<sessions, regPoisoned, pop, ptyEvents, pcalls, issued,
                   returned, closedIds, closedOk, peff, pabsent, pafter,
                   lastResize>>

\* let _ = master.resize(PtySize { rows, cols, .. });  Ok(())
\* resize succeeds, or fails (the error is dropped), or the call panics.
\* peff.rfail is bookkeeping: the underlying resize failed.
ResizeApplyPropagating(t) ==
    /\ ppc[t] = "r_resize"
    /\ LET q == ppty[t]
       IN  \/ /\ ptys' = SetPty(q, [ptys[q] EXCEPT
                                       !.geom = <<pop[t].rows, pop[t].cols>>,
                                       !.mheld = 0])
              /\ peff' = [peff EXCEPT ![t].geom = TRUE, ![t].pty = q]
              /\ lastResize' = [lastResize EXCEPT
                                   ![pop[t].id] = Some(<<pop[t].rows, pop[t].cols>>)]
              /\ Return(t, "Ok")
              /\ regHeld' = 0
              /\ UNCHANGED regPoisoned
           \/ /\ ptys' = SetPty(q, [ptys[q] EXCEPT !.mheld = 0])
              /\ peff' = [peff EXCEPT ![t].rfail = TRUE, ![t].pty = q]
              /\ Return(t, "Failed to resize")
              /\ regHeld' = 0
              /\ UNCHANGED <<regPoisoned, lastResize>>
           \/ /\ ptys' = SetPty(q, [ptys[q] EXCEPT !.mheld = 0, !.mpois = TRUE])
              /\ Panic(t)
              /\ UNCHANGED <<peff, lastResize>>
    /\ UNCHANGED <<sessions, pop, ppty, ptyEvents, pcalls, issued, returned,
                   closedIds, closedOk, pabsent, pafter>>

ResizeApply(t) ==
    /\ ppc[t] = "r_resize"
    /\ LET q == ppty[t]
       IN  \/ /\ ptys' = SetPty(q, [ptys[q] EXCEPT
                                       !.geom = <<pop[t].rows, pop[t].cols>>,
                                       !.mheld = 0])
              /\ peff' = [peff EXCEPT ![t].geom = TRUE, ![t].pty = q]
              /\ lastResize' = [lastResize EXCEPT
                                   ![pop[t].id] = Some(<<pop[t].rows, pop[t].cols>>)]
              /\ Return(t, "Ok")
              /\ regHeld' = 0
              /\ UNCHANGED regPoisoned
           \/ /\ ptys' = SetPty(q, [ptys[q] EXCEPT !.mheld = 0])
              /\ peff' = [peff EXCEPT ![t].rfail = TRUE, ![t].pty = q]
              /\ Return(t, "Ok")
              /\ regHeld' = 0
              /\ UNCHANGED <<regPoisoned, lastResize>>
           \/ /\ ptys' = SetPty(q, [ptys[q] EXCEPT !.mheld = 0, !.mpois = TRUE])
              /\ Panic(t)
              /\ UNCHANGED <<peff, lastResize>>
    /\ UNCHANGED <<sessions, pop, ppty, ptyEvents, pcalls, issued, returned,
                   closedIds, closedOk, pabsent, pafter>>

\* --- close_pty_session

CloseCall(t) ==
    /\ \E id \in KnownIds :
          Invoke(t, [op |-> "close", id |-> id, rows |-> 0, cols |-> 0])
    /\ ppc' = [ppc EXCEPT ![t] = "cl_lock"]
    /\ UNCHANGED <<sessions, ptys, regHeld, regPoisoned, ppty, pres, ptyEvents,
                   issued, returned, closedIds, closedOk, lastResize>>

\* let mut sessions = state.sessions.lock().map_err(|_| "Lock poisoned")?;
\* sessions.remove(&session_id);  Ok(())
CloseRemoveStopping(t) ==
    /\ ppc[t] = "cl_lock"
    /\ regHeld = 0
    /\ IF regPoisoned
       THEN /\ Return(t, "Lock poisoned")
            /\ UNCHANGED <<sessions, closedOk, peff, ptys>>
       ELSE /\ sessions' = Remove(sessions, pop[t].id)
            /\ ptys' = [q \in PtyIds |->
                           IF ptys[q].key = pop[t].id /\ ptys[q].pump # "none"
                           THEN [ptys[q] EXCEPT !.pump = "done"] ELSE ptys[q]]
            /\ closedOk' = closedOk \cup {pop[t].id}
            /\ peff' = [peff EXCEPT ![t].rem = pop[t].id \in DOMAIN sessions]
            /\ Return(t, "Ok")
    /\ closedIds' = closedIds \cup {pop[t].id}
    /\ UNCHANGED <<regHeld, regPoisoned, pop, ppty, ptyEvents, pcalls,
                   issued, returned, pabsent, pafter, lastResize>>

CloseRemove(t) ==
    /\ ppc[t] = "cl_lock"
    /\ regHeld = 0
    /\ IF regPoisoned
       THEN /\ Return(t, "Lock poisoned")
            /\ UNCHANGED <<sessions, closedOk, peff>>
       ELSE /\ sessions' = Remove(sessions, pop[t].id)
            /\ closedOk' = closedOk \cup {pop[t].id}
            /\ peff' = [peff EXCEPT ![t].rem = pop[t].id \in DOMAIN sessions]
            /\ Return(t, "Ok")
    /\ closedIds' = closedIds \cup {pop[t].id}
    /\ UNCHANGED <<ptys, regHeld, regPoisoned, pop, ppty, ptyEvents, pcalls,
                   issued, returned, pabsent, pafter, lastResize>>

\* ------------------------------------------------------------ specification

FocusInit ==
    /\ mode \in {"conc", "seq"}
    /\ active = FALSE
    /\ target = None
    /\ fpc = [c \in FocusCallers |-> "idle"]
    /\ farg = [c \in FocusCallers |-> "Foo"]
    /\ loops = << >>
    /\ events = << >>
    /\ fcalls = 0
    /\ npolls = 0
    /\ stopQuiet = FALSE
    /\ ffollows = [c \in FocusCallers |-> FALSE]
    /\ usedTargets = {}
    /\ frun = [c \in FocusCallers |-> FALSE]
    /\ stopAlone = FALSE

PtyInit ==
    /\ sessions = << >>
    /\ ptys = << >>
    /\ regHeld = 0
    /\ regPoisoned = FALSE
    /\ ppc = [t \in PtyCallers |-> "idle"]
    /\ pop = [t \in PtyCallers |-> NoOp]
    /\ ppty = [t \in PtyCallers |-> 0]
    /\ pres = [t \in PtyCallers |-> [op |-> "none", id |-> 0, res |-> "none"]]
    /\ ptyEvents = << >>
    /\ pcalls = 0
    /\ issued = {}
    /\ returned = << >>
    /\ closedIds = {}
    /\ closedOk = {}
    /\ peff = [t \in PtyCallers |-> NoEffect]
    /\ pabsent = [t \in PtyCallers |-> TRUE]
    /\ pafter = [t \in PtyCallers |-> "no"]
    /\ lastResize = [i \in SessionIds |-> None]

Init == FocusInit /\ PtyInit /\ mode = "conc"
PollInit == FocusInit /\ PtyInit /\ mode = "seq"

PtyNext ==
    \/ (\E t \in PtyCallers : CreateCall(t)) /\ UNCHANGED focusVars
    \/ (\E t \in PtyCallers : CreateMake(t)) /\ UNCHANGED focusVars
    \/ (\E t \in PtyCallers : CreateInsert(t)) /\ UNCHANGED focusVars
    \/ (\E t \in PtyCallers : CreateSpawnPump(t)) /\ UNCHANGED focusVars
    \/ (\E t \in PtyCallers : WriteCall(t)) /\ UNCHANGED focusVars
    \/ (\E t \in PtyCallers : WriteLock(t)) /\ UNCHANGED focusVars
    \/ (\E t \in PtyCallers : WriteGet(t)) /\ UNCHANGED focusVars
    \/ (\E t \in PtyCallers : WriteBytes(t)) /\ UNCHANGED focusVars
    \/ (\E t \in PtyCallers : ResizeCall(t)) /\ UNCHANGED focusVars
    \/ (\E t \in PtyCallers : ResizeLock(t)) /\ UNCHANGED focusVars
    \/ (\E t \in PtyCallers : ResizeGet(t)) /\ UNCHANGED focusVars
    \/ (\E t \in PtyCallers : ResizeApply(t)) /\ UNCHANGED focusVars
    \/ (\E t \in PtyCallers : CloseCall(t)) /\ UNCHANGED focusVars
    \/ (\E t \in PtyCallers : CloseRemove(t)) /\ UNCHANGED focusVars
    \/ (\E q \in PtyIds : PumpRead(q)) /\ UNCHANGED focusVars
    \/ (\E q \in PtyIds : PumpEnd(q)) /\ UNCHANGED focusVars
    \/ (\E q \in PtyIds : PumpEmit(q)) /\ UNCHANGED focusVars

FocusNext ==
    \/ (\E c \in Callers : StartCall(c)) /\ UNCHANGED ptyVars
    \/ (\E c \in Callers : StartSetTarget(c)) /\ UNCHANGED ptyVars
    \/ (\E c \in Callers : StartLoadActive(c)) /\ UNCHANGED ptyVars
    \/ (\E c \in Callers : StartStoreActive(c)) /\ UNCHANGED ptyVars
    \/ (\E c \in Callers : StartSpawn(c)) /\ UNCHANGED ptyVars
    \/ (\E c \in Callers : StopCall(c)) /\ UNCHANGED ptyVars
    \/ (\E c \in Callers : StopStoreActive(c)) /\ UNCHANGED ptyVars
    \/ (\E c \in Callers : StopClearTarget(c)) /\ UNCHANGED ptyVars
    \/ (\E l \in LoopIds : LoopCheck(l)) /\ UNCHANGED ptyVars
    \/ (\E l \in LoopIds : LoopPollNone(l)) /\ UNCHANGED ptyVars
    \/ (\E l \in LoopIds : LoopPollSome(l)) /\ UNCHANGED ptyVars
    \/ (\E l \in LoopIds : LoopReadTarget(l)) /\ UNCHANGED ptyVars
    \/ (\E l \in LoopIds : LoopEmit(l)) /\ UNCHANGED ptyVars

\* The focus monitor under overlapping calls.
FocusSpec == Init /\ [][FocusNext]_vars
\* The focus monitor under sequential calls, with long poll sequences.
PollSpec == PollInit /\ [][FocusNext]_vars
\* The session manager.
PtySpec == Init /\ [][PtyNext]_vars

\* Scheduling of the session commands: a command that has been invoked keeps
\* taking steps while it can (a library call it is inside returns or panics).
PtyCommandStep(t) ==
    /\ CreateMake(t) \/ CreateInsert(t) \/ CreateSpawnPump(t) \/ WriteLock(t)
          \/ WriteGet(t) \/ WriteBytes(t) \/ ResizeLock(t) \/ ResizeGet(t)
          \/ ResizeApply(t) \/ CloseRemove(t)
    /\ UNCHANGED focusVars
PtyFairSpec ==
    Init /\ [][PtyNext]_vars /\ \A t \in PtyCallers : WF_vars(PtyCommandStep(t))

\* Scheduling: a spawned polling thread keeps running (its sleep ends), and a
\* command that has been invoked runs to its return.
LoopStep(l) ==
    /\ l \in LoopIds
    /\ LoopCheck(l) \/ LoopPollNone(l) \/ LoopPollSome(l) \/ LoopReadTarget(l)
          \/ LoopEmit(l)
    /\ UNCHANGED ptyVars
CommandStep(c) ==
    /\ StartSetTarget(c) \/ StartLoadActive(c) \/ StartStoreActive(c)
          \/ StartSpawn(c) \/ StopStoreActive(c) \/ StopClearTarget(c)
    /\ UNCHANGED ptyVars
FocusFairness ==
    /\ \A l \in 1..MaxFocusCalls : WF_vars(LoopStep(l))
    /\ \A c \in FocusCallers : WF_vars(CommandStep(c))
FocusFairSpec == Init /\ [][FocusNext]_vars /\ FocusFairness
PollFairSpec == PollInit /\ [][FocusNext]_vars /\ FocusFairness

\* ------------------------------------------------- focus monitor: the claims

RECURSIVE Collapse(_)
\* s with every run of consecutive equal elements reduced to one element.
Collapse(s) ==
    IF Len(s) <= 1 THEN s
    ELSE LET rest == Collapse(Tail(s))
         IN  IF s[1] = s[2] THEN rest ELSE <<s[1]>> \o rest

IsLoopEvent(l, e) == e.loop = l
\* The events thread l emitted, in order, and their focused_app fields.
LoopEvents(l) == SelectSeq(events, LAMBDA e : IsLoopEvent(l, e))
FocusedApps(s) == [i \in 1..Len(s) |-> s[i].focused_app]
Front(s) == SubSeq(s, 1, Len(s) - 1)

\* C1 (as claimed): at most one polling thread is alive in every reachable
\* state, whatever the order of the start and stop calls.
C1_AtMostOneLoop == Cardinality(RunningLoops) <= 1

\* C2 (as claimed): no event is emitted after a stop returned whose
\* is_target_focused was computed against a target read before that stop
\* returned.
C2_NoStaleEvent == \A i \in 1..Len(events) : ~events[i].stale

\* Thread l has completed the iteration of its first named poll.
FirstPollDone(l) ==
    /\ loops[l].polled # << >>
    /\ ~(Len(loops[l].polled) = 1 /\ loops[l].pc \in {"read", "emit"})

C4_Dedup ==
    \A l \in LoopIds :
        ~loops[l].unarmed =>
            LET want == Collapse(loops[l].polled)
                got == FocusedApps(LoopEvents(l))
            IN  IF loops[l].pc \in {"read", "emit"}
                THEN got = Front(want)
                ELSE got = want

\* C4's case: the polls A, A, B, A gave the events A, B, A.
C4_Witness ==
    \E l \in LoopIds :
        /\ loops[l].polled = <<"A", "A", "B", "A">>
        /\ loops[l].pc = "check"
        /\ ~loops[l].unarmed
        /\ FocusedApps(LoopEvents(l)) = <<"A", "B", "A">>

\* C5: every event has is_target_focused exactly when focused_app is the
\* target that was read from the shared target for it, and is_self_focused
\* exactly when focused_app is "Shelll" or "shelll"; while "Foo" is the only
\* target ever passed, is_target_focused holds only with focused_app "Foo".
C5_Flags ==
    \A i \in 1..Len(events) :
        LET e == events[i]
        IN  /\ e.is_target_focused <=> (e.focused_app = e.against)
            /\ e.is_self_focused <=> (e.focused_app \in {"Shelll", "shelll"})
            /\ e.against \in usedTargets
            /\ (usedTargets = {"Foo"} /\ e.is_target_focused) => e.focused_app = "Foo"

\* C5's case: with target "Foo" only, an event for "Foo" (target), one for
\* "shelll" (self) and one for another name.
C5_Witness ==
    /\ usedTargets = {"Foo"}
    /\ \E i, j, k \in 1..Len(events) :
          /\ events[i].focused_app = "Foo" /\ events[i].is_target_focused
          /\ ~events[i].is_self_focused
          /\ events[j].focused_app = "shelll" /\ events[j].is_self_focused
          /\ ~events[j].is_target_focused
          /\ events[k].focused_app = "A" /\ ~events[k].is_target_focused
          /\ ~events[k].is_self_focused

\* Caller c takes a step of a start_focus_monitor call.
StepOfStart(c) == InStart(c) /\ fpc'[c] # fpc[c]

\* C13: a start_focus_monitor call made while the monitor is running (the
\* active flag was true when the call was invoked and no stop has cleared it
\* since) changes only the shared target: the flag stays true, and none of
\* the call's steps writes the flag, spawns a polling thread, changes a
\* thread's last-seen name or emits an event; the call returns after its
\* load of the flag.
C13_StartWhileRunning ==
    [][\A c \in FocusCallers :
          (frun[c] /\ StepOfStart(c)) =>
              /\ active /\ active'
              /\ loops' = loops
              /\ events' = events
              /\ fpc'[c] \in {"s_load", "idle"}
              /\ fpc[c] = "s_set" => target' = Some(farg[c])
              /\ fpc[c] # "s_set" => target' = target]_vars

\* C13's case: a start("Bar") invoked while the monitor ran for "Foo" has
\* returned; the one polling thread still runs with its last-seen name, the
\* flag is true and the target is "Bar".
C13_Witness ==
    \E c \in FocusCallers :
        /\ frun[c] /\ fpc[c] = "idle" /\ farg[c] = "Bar"
        /\ target = Some("Bar") /\ active
        /\ Len(loops) = 1 /\ Running(1)
        /\ loops[1].last_app = Some("A")
        /\ Len(events) = 1 /\ events[1].against = "Foo"

IsArmed(r) == r.tgt # None
\* What thread l should have emitted for the iterations s.
Expected(l, s) ==
    [i \in 1..Len(SelectSeq(s, IsArmed)) |->
        LET r == SelectSeq(s, IsArmed)[i]
        IN  [focused_app |-> r.app, against |-> r.tgt[1]]]
Emitted(l) ==
    [i \in 1..Len(LoopEvents(l)) |->
        [focused_app |-> LoopEvents(l)[i].focused_app,
         against |-> LoopEvents(l)[i].against]]

\* C14: a polling thread emits no event for an iteration in which it read
\* an unset target, whatever name it polled: the events of a thread are, in
\* order, exactly its iterations that read a set target (less the last one
\* while the thread is between that read and the emit), each with the name
\* polled and the target read; and its iterations are the changes of name
\* it polled.
C14_NoEventUnarmed ==
    \A l \in LoopIds :
        /\ Emitted(l) = IF loops[l].pc = "emit"
                        THEN Expected(l, Front(loops[l].iters))
                        ELSE Expected(l, loops[l].iters)
        /\ loops[l].pc = "emit" => IsArmed(loops[l].iters[Len(loops[l].iters)])
        /\ [i \in 1..Len(loops[l].iters) |-> loops[l].iters[i].app]
              = IF loops[l].pc = "read"
                THEN Front(Collapse(loops[l].polled))
                ELSE Collapse(loops[l].polled)

\* C14's case: a thread reported "A"; a stop then cleared the target with no
\* start since; the thread polled the changed name "Foo", read the unset
\* target and went back to sleep without an event.
C14_Witness ==
    \E l \in LoopIds :
        /\ stopQuiet /\ target = None
        /\ loops[l].iters = <<[app |-> "A", tgt |-> Some("Foo")],
                              [app |-> "Foo", tgt |-> None]>>
        /\ loops[l].pc \in {"check", "exited"}
        /\ Emitted(l) = <<[focused_app |-> "A", against |-> "Foo"]>>
        /\ Len(events) = 1

\* A stop has returned that no start call overlapped (none was in progress
\* when it cleared the flag) and that no start call has followed.
StoppedAlone == stopQuiet /\ stopAlone

IsPumpEvent(q, e) == e.pump = q
\* The data of the events the reader thread of PTY q emitted, in order.
PumpEvents(q) == SelectSeq(ptyEvents, LAMBDA e : IsPumpEvent(q, e))
PumpData(q) == [i \in 1..Len(PumpEvents(q)) |-> PumpEvents(q)[i].data]
RECURSIVE Concat(_)
Concat(ss) == IF ss = << >> THEN << >> ELSE ss[1] \o Concat(Tail(ss))
\* Caller t's last command has returned.
Returned(t) == ppc[t] = "idle" /\ pres[t].op = pop[t].op /\ pop[t].op # "none"

\* A write holds the sessions mutex, and its id is registered with the PTY it
\* holds, for as long as it is about to deliver its bytes.
WriteUnderRegistryLock ==
    \A t \in PtyCallers :
        ppc[t] = "w_write" =>
            /\ regHeld = t
            /\ Lookup(pop[t].id) = Some(ppty[t])
            /\ ptys[ppty[t]].wheld = t

\* C6 (as claimed): once a close_pty_session(id) has returned, id is no key
\* of the registry, and every write_to_pty(id) that starts afterwards delivers
\* no bytes and returns success; a write delivers its bytes under the
\* registry lock.
C6_CloseThenWrite ==
    /\ \A i \in closedIds : i \notin DOMAIN sessions
    /\ \A t \in PtyCallers :
          (pop[t].op = "write" /\ pafter[t] # "no") =>
              /\ peff[t] = NoEffect
              /\ Returned(t) => pres[t].res = "Ok"
    /\ WriteUnderRegistryLock

\* C6 (amended): once a close_pty_session(id) has returned Ok, id is no key
\* of the registry, and every write_to_pty(id) that starts afterwards delivers
\* no bytes to any PTY and returns Ok, or returns the error "Lock poisoned"
\* when the registry lock is poisoned; a write delivers its bytes under the
\* registry lock, so before the removal or not at all.
C6_CloseOkThenWrite ==
    /\ \A i \in closedOk : i \notin DOMAIN sessions
    /\ \A t \in PtyCallers :
          (pop[t].op = "write" /\ pafter[t] = "ok") =>
              /\ peff[t] = NoEffect
              /\ Returned(t) =>
                    \/ pres[t].res = "Ok"
                    \/ pres[t].res = "Lock poisoned" /\ regPoisoned
    /\ WriteUnderRegistryLock

\* C6's case: a session was created, written to, and closed; a write to its
\* id that began after the close returned Ok and delivered nothing.
C6_Witness ==
    \E t \in PtyCallers : \E q \in PtyIds :
        /\ Returned(t) /\ pop[t].op = "write" /\ pafter[t] = "ok"
        /\ pres[t].res = "Ok"
        /\ ptys[q].key = pop[t].id
        /\ pop[t].id \notin DOMAIN sessions

\* C7: sessions are isolated.  The ids create returned are pairwise
\* different; every key maps to one PTY, the one inserted under that key, and
\* no PTY is under two keys; every pty-output event carries the id its
\* emitting thread's PTY was inserted under, and only bytes of that PTY's
\* output; a write delivers bytes only to the PTY inserted under its id.
C7_Isolation ==
    /\ \A i, j \in 1..Len(returned) : i # j => returned[i] # returned[j]
    /\ \A i \in DOMAIN sessions :
          /\ sessions[i] \in PtyIds
          /\ ptys[sessions[i]].key = i
    /\ \A q, r \in PtyIds : q # r => ptys[q].key # ptys[r].key
    /\ \A n \in 1..Len(ptyEvents) :
          LET e == ptyEvents[n]
          IN  /\ e.session_id = ptys[e.pump].key
              /\ \A k \in 1..Len(e.data) : \E m \in 1..MaxOut : e.data[k] = ByteOf(e.pump, m)
    /\ \A t \in PtyCallers :
          peff[t].bytes # << >> =>
              /\ pop[t].op = "write"
              /\ ptys[peff[t].pty].key = pop[t].id
    /\ \A q \in PtyIds : \A k \in 1..Len(ptys[q].input) :
          \E t \in PtyCallers : \E m \in 1..Len(Data(t)) : ptys[q].input[k] = Data(t)[m]

\* C7's case: two sessions, each with an output event, and a write delivered
\* to one of them.
C7_Witness ==
    /\ Len(returned) = 2
    /\ \A q \in PtyIds : PumpEvents(q) # << >>
    /\ \E t \in PtyCallers : \E q \in PtyIds :
          /\ Returned(t) /\ peff[t].bytes = Data(t) /\ peff[t].pty = q
          /\ ptys[q].input = Data(t)
          /\ \A r \in PtyIds \ {q} : ptys[r].input = << >>

\* C8: the events of a reader thread are its nonzero reads, one event per
\* read with the bytes of that read, in order (less the last read while the
\* thread is between the read and the emit); each read has 1 to BufLen bytes
\* and the reads together are the bytes the PTY delivered, in its order; after
\* the first Ok(0) or Err the thread is finished, and there is no further
\* event.
C8_PumpFifo ==
    \A q \in PtyIds :
        /\ IF ptys[q].pump = "emit"
           THEN /\ PumpData(q) = Front(ptys[q].reads)
                /\ ptys[q].buf = ptys[q].reads[Len(ptys[q].reads)]
           ELSE PumpData(q) = ptys[q].reads
        /\ \A k \in 1..Len(ptys[q].reads) : Len(ptys[q].reads[k]) \in 1..BufLen
        /\ Concat(ptys[q].reads) = Chunk(q, 0, TotalLen(ptys[q].reads))
        /\ ptys[q].eof => ptys[q].pump = "done"
        /\ ptys[q].pump = "none" => ptys[q].reads = << >>

\* C8's case: a reader thread made two reads of one byte, emitted two events
\* and ended on Ok(0) or Err.
C8_Witness ==
    \E q \in PtyIds :
        /\ ptys[q].pump = "done" /\ ptys[q].eof
        /\ PumpData(q) = <<<<ByteOf(q, 1)>>, <<ByteOf(q, 2)>>>>

\* C9: a create_pty_session that returned an error inserted no session and
\* started no reader thread; one that inserted a session goes on to start
\* the reader thread and return Ok with the new id; every PTY with a reader
\* thread belongs to a create that returned Ok.
C9_CreateFailure ==
    /\ \A t \in PtyCallers :
          pop[t].op = "create" =>
              /\ (Returned(t) /\ pres[t].res # "Ok") => peff[t] = NoEffect
              /\ (Returned(t) /\ pres[t].res = "Ok") =>
                    /\ peff[t] = [NoEffect EXCEPT !.ins = TRUE, !.pump = TRUE]
                    /\ pres[t].id = pop[t].id
              /\ peff[t].ins => ppc[t] \in {"c_pump", "idle"}
              /\ ~peff[t].rem /\ ~peff[t].geom /\ peff[t].bytes = << >>
    /\ \A q \in PtyIds :
          /\ ptys[q].pump # "none" =>
                \E i \in 1..Len(returned) : returned[i] = ptys[q].key
          /\ ptys[q].pump = "none" =>
                \E t \in PtyCallers : ppc[t] = "c_pump" /\ ppty[t] = q
    /\ Len(ptys) <= Cardinality(issued)

\* C9's case: a create failed on the poisoned registry lock, while an earlier
\* create had succeeded.
C9_Witness ==
    \E t \in PtyCallers :
        /\ Returned(t) /\ pop[t].op = "create"
        /\ pres[t].res = "Lock poisoned"
        /\ Len(returned) = 1 /\ Len(ptys) = 1
        /\ DOMAIN sessions = {returned[1]}

\* C10 (as claimed): a write, resize or close whose id is no key of the
\* registry returns success and changes neither the registry nor any PTY's
\* input or geometry.
C10_AbsentNoop ==
    \A t \in PtyCallers :
        (pop[t].op \in {"write", "resize", "close"} /\ pabsent[t]) =>
            /\ peff[t] = NoEffect
            /\ Returned(t) => pres[t].res = "Ok"

\* C10 (amended): a write, resize or close whose id is no key of the registry
\* changes neither the registry nor any PTY's input or geometry, and returns
\* Ok, or the error "Lock poisoned" when the registry lock is poisoned.
C10_AbsentNoopUnlessPoisoned ==
    \A t \in PtyCallers :
        (pop[t].op \in {"write", "resize", "close"} /\ pabsent[t]) =>
            /\ peff[t] = NoEffect
            /\ Returned(t) =>
                  \/ pres[t].res = "Ok"
                  \/ pres[t].res = "Lock poisoned" /\ regPoisoned

\* C10's case: with a session registered, a write and a resize on the id of
\* no session have returned Ok.
C10_Witness ==
    /\ DOMAIN sessions # {}
    /\ \E t, u \in PtyCallers :
          /\ Returned(t) /\ pop[t].op = "write" /\ pabsent[t] /\ pres[t].res = "Ok"
          /\ Returned(u) /\ pop[u].op = "resize" /\ pabsent[u] /\ pres[u].res = "Ok"

\* C11 (as claimed): every resize_pty call returns success, whether its id is
\* absent, the underlying resize fails, or a lock involved is poisoned.
C11_ResizeNeverErrors ==
    \A t \in PtyCallers :
        (pop[t].op = "resize" /\ Returned(t)) => pres[t].res = "Ok"

\* C11 (amended): a resize_pty call returns Ok when the underlying resize
\* fails, when it succeeds, and when its id is absent and the registry lock is
\* not poisoned; the only error it returns is "Lock poisoned", and only when
\* the registry lock is poisoned, in which case it has changed nothing.
C11_ResizeErrsOnlyOnPoison ==
    \A t \in PtyCallers :
        (pop[t].op = "resize" /\ Returned(t)) =>
            /\ pres[t].res \in {"Ok", "Lock poisoned"}
            /\ pres[t].res = "Lock poisoned" => (regPoisoned /\ peff[t] = NoEffect)
            /\ (peff[t].rfail \/ peff[t].geom) => pres[t].res = "Ok"
            /\ (pabsent[t] /\ ~regPoisoned) => pres[t].res = "Ok"

\* C11's case: a resize on a registered id panicked inside the library call,
\* and a later resize on that id returned the error "Lock poisoned".
C11_Witness ==
    \E t, u \in PtyCallers :
        /\ pop[t].op = "resize" /\ Returned(t) /\ pres[t].res = "Lock poisoned"
        /\ pop[t].id \in DOMAIN sessions
        /\ ppc[u] = "dead" /\ pop[u].op = "resize"

\* C11's other case: the underlying resize failed and the call returned Ok.
C11_FailedResizeOk ==
    \E t \in PtyCallers :
        /\ pop[t].op = "resize" /\ Returned(t) /\ peff[t].rfail
        /\ pres[t].res = "Ok"

\* C12: the geometry of every session's PTY is 30 rows by 100 columns while
\* no resize_pty on the session's id has succeeded, and otherwise the (rows,
\* cols) of the last resize_pty on that id that succeeded; so a resize on one
\* id, a failed resize and a resize on an absent id change no geometry.
C12_Geometry ==
    /\ \A q \in PtyIds :
          ptys[q].geom = IF lastResize[ptys[q].key] = None
                         THEN <<InitRows, InitCols>>
                         ELSE lastResize[ptys[q].key][1]
    /\ \A t \in PtyCallers :
          peff[t].geom =>
              /\ pop[t].op = "resize"
              /\ ptys[peff[t].pty].key = pop[t].id
    /\ \A i \in SessionIds :
          lastResize[i] # None => \E q \in PtyIds : ptys[q].key = i

\* C12's case: two registered sessions; one was resized to 50 x 132 and has
\* that geometry, the other still has 30 x 100.
C12_Witness ==
    \E i, j \in DOMAIN sessions :
        /\ i # j
        /\ lastResize[i] = Some(<<50, 132>>)
        /\ ptys[sessions[i]].geom = <<50, 132>>
        /\ lastResize[j] = None
        /\ ptys[sessions[j]].geom = <<InitRows, InitCols>>

\* C12's other case: a second resize on the same id replaced the first.
C12_SecondResize ==
    \E i \in DOMAIN sessions : \E t, u \in PtyCallers :
        /\ t # u /\ pop[t].op = "resize" /\ pop[u].op = "resize"
        /\ pop[t].id = i /\ pop[u].id = i
        /\ peff[t].geom /\ peff[u].geom
        /\ pop[t].rows # pop[u].rows
        /\ Returned(t) /\ Returned(u)

\* Caller t takes the step of close_pty_session that locks the registry.
StepOfClose(t) == ppc[t] = "cl_lock" /\ ppc'[t] # "cl_lock"

\* C16: close_pty_session(id) changes only the registry: its step removes
\* the entry of id (nothing, when the registry lock is poisoned) and leaves
\* every PTY, its reader thread and the emitted events as they are; a reader
\* thread ends only by a read that returned Ok(0) or Err, whether or not its
\* session is registered, and what it emits keeps carrying its id.
C16_CloseOnlyRegistry ==
    /\ [][\A t \in PtyCallers :
            StepOfClose(t) =>
                /\ ptys' = ptys
                /\ ptyEvents' = ptyEvents
                /\ DOMAIN sessions' =
                      IF regPoisoned THEN DOMAIN sessions
                      ELSE DOMAIN sessions \ {pop[t].id}
                /\ \A i \in DOMAIN sessions' : sessions'[i] = sessions[i]]_vars
    /\ [][\A q \in PtyIds :
            (ptys[q].pump # "done" /\ ptys'[q].pump = "done") =>
                (ptys[q].pump = "read" /\ ~ptys[q].eof /\ ptys'[q].eof)]_vars
    /\ [](\A n \in 1..Len(ptyEvents) :
            ptyEvents[n].session_id = ptys[ptyEvents[n].pump].key)

\* C16's case: a session was closed, and afterwards its reader thread, still
\* running, emitted an event that carries the closed id.
C16_Witness ==
    \E n \in 1..Len(ptyEvents) :
        LET e == ptyEvents[n]
        IN  /\ e.closed
            /\ e.session_id \in closedOk
            /\ e.session_id \notin DOMAIN sessions
            /\ ptys[e.pump].pump = "read"
            /\ ~ptys[e.pump].eof

\* Caller t is inside the library call on its session's PTY.
InPty(t) == ppc[t] \in {"w_write", "r_resize"}
\* s is a prefix of d.
IsPrefix(s, d) == Len(s) <= Len(d) /\ s = SubSeq(d, 1, Len(s))
\* No two write_to_pty / resize_pty calls are inside the library call on the
\* same PTY at once.
PtyExclusion ==
    \A t, u \in PtyCallers :
        (t # u /\ InPty(t) /\ InPty(u)) => ppty[t] # ppty[u]
\* In every PTY's input, a byte that is not the first byte of a write's data
\* directly follows the byte before it in that data: the bytes of one write
\* are contiguous.
Contiguous ==
    \A q \in PtyIds : \A k \in 1..Len(ptys[q].input) :
        \A t \in PtyCallers : \A m \in 2..Len(Data(t)) :
            ptys[q].input[k] = Data(t)[m] =>
                (k > 1 /\ ptys[q].input[k - 1] = Data(t)[m - 1])

\* C17 (as claimed): write_to_pty and resize_pty calls on one session are
\* never inside that session's PTY at the same time, the bytes of a write are
\* contiguous in the input, and every write that has returned has delivered
\* its complete data or, having found no session, nothing.
C17_WritesComplete ==
    /\ PtyExclusion
    /\ Contiguous
    /\ \A t \in PtyCallers :
          (pop[t].op = "write" /\ Returned(t)) =>
              peff[t].bytes \in {<< >>, Data(t)}

\* C17 (amended): write_to_pty and resize_pty calls on one session are never
\* inside that session's PTY at the same time, and the bytes of a write are
\* contiguous in the input; a write delivers a prefix of its data, in order
\* and unmodified: all of it when it has returned and its write_all did not
\* fail.
C17_WritesContiguous ==
    /\ PtyExclusion
    /\ Contiguous
    /\ \A t \in PtyCallers :
          pop[t].op = "write" =>
              /\ IsPrefix(peff[t].bytes, Data(t))
              /\ (Returned(t) /\ pres[t].res = "Ok" /\ ~peff[t].wfail
                     /\ peff[t].pty # 0) => peff[t].bytes = Data(t)
              /\ (Returned(t) /\ ~pabsent[t] /\ pafter[t] = "no"
                     /\ pres[t].res = "Ok" /\ ~peff[t].wfail
                     /\ pop[t].id \notin closedOk) => peff[t].bytes = Data(t)

\* C17's case: two writes on the same session overlapped; the one that got
\* the locks second has delivered its data after the complete data of the
\* first, and both have returned.
C17_Witness ==
    \E t, u \in PtyCallers : \E q \in PtyIds :
        /\ t < u
        /\ pop[t].op = "write" /\ pop[u].op = "write"
        /\ Returned(t) /\ Returned(u)
        /\ peff[t].pty = q /\ peff[u].pty = q
        /\ ptys[q].input = Data(u) \o Data(t)

\* C17's other case: a write is inside write_all with one byte delivered
\* while a write on the same id waits for the registry lock.
C17_Waiting ==
    \E t, u \in PtyCallers :
        /\ ppc[t] = "w_write" /\ peff[t].bytes = <<Data(t)[1]>>
        /\ ppc[u] = "w_lock" /\ pop[u].id = pop[t].id

\* C18 (as claimed): a write_to_pty or resize_pty call that is inside the
\* library call on its session's PTY, holding the per-session lock, no longer
\* holds the registry lock.
C18_RegistryReleased == \A t \in PtyCallers : InPty(t) => regHeld # t

\* The state that refutes C18's consequence: a write is inside write_all on
\* one session while a create_pty_session, which concerns another session,
\* waits for the registry lock the write still holds.
C18_Blocked ==
    \E t, u \in PtyCallers :
        /\ ppc[t] = "w_write" /\ regHeld = t
        /\ ppc[u] = "c_lock" /\ pop[u].id # pop[t].id
        /\ ~ENABLED CreateInsert(u)

\* The per-session locks caller t holds.
HeldBy(t) ==
    {<<q, "writer">> : q \in {r \in PtyIds : ptys[r].wheld = t}}
        \cup {<<q, "master">> : q \in {r \in PtyIds : ptys[r].mheld = t}}
\* Caller t is inside a command, and is at its request of the registry lock.
InCommand(t) == ppc[t] \notin {"idle", "dead"}
AtRegistryLock(t) == ppc[t] \in {"c_lock", "w_lock", "r_lock", "cl_lock"}
\* A reader thread takes a step.
StepOfPump(q) == ptys[q].pump \in {"read", "emit"} /\ ptys'[q].pump # ptys[q].pump

\* C19: the session commands cannot deadlock.  A caller that holds a
\* per-session lock took the registry lock before and still holds it; it
\* holds at most one per-session lock; a caller at its request of the
\* registry lock holds no lock; locks are held only by callers inside the
\* library call, between the lookup and that call, or about to look up; a
\* step of a reader thread changes no lock and needs none; and every command
\* that has been invoked returns (or its caller panics), given that the
\* write_all or resize it is inside returns or panics.
C19_NoDeadlock ==
    /\ [](\A t \in PtyCallers :
            /\ HeldBy(t) # {} => regHeld = t
            /\ Cardinality(HeldBy(t)) <= 1
            /\ AtRegistryLock(t) => (HeldBy(t) = {} /\ regHeld # t)
            /\ HeldBy(t) # {} <=> InPty(t)
            /\ regHeld = t <=> (InPty(t) \/ ppc[t] \in {"w_get", "r_get"}))
    /\ [](regHeld \in PtyCallers \cup {0})
    /\ [][\A q \in PtyIds :
            StepOfPump(q) =>
                /\ regHeld' = regHeld /\ regPoisoned' = regPoisoned
                /\ \A r \in PtyIds :
                      /\ ptys'[r].wheld = ptys[r].wheld
                      /\ ptys'[r].mheld = ptys[r].mheld]_vars
    /\ \A t \in PtyCallers : InCommand(t) ~> ~InCommand(t)

\* C19's case: a write and a resize on the same session, issued by two
\* callers, have both taken effect and returned, and every lock is free.
C19_Witness ==
    \E t, u \in PtyCallers :
        /\ t # u
        /\ pop[t].op = "write" /\ Returned(t) /\ peff[t].bytes = Data(t)
        /\ pop[u].op = "resize" /\ Returned(u) /\ peff[u].geom
        /\ peff[u].pty = peff[t].pty
        /\ regHeld = 0 /\ HeldBy(t) = {} /\ HeldBy(u) = {}
        /\ pcalls = MaxPtyCalls

\* C20 (as claimed): whenever no start_focus_monitor or stop_focus_monitor
\* call is in progress, the active flag is true exactly when the target is
\* set.
C20_ActiveIffTarget ==
    (\A c \in FocusCallers : fpc[c] = "idle") => (active <=> target # None)

====
